---- MODULE Spec2Model ----
(***************************************************************************)
(* State-machine model of the VoiceSearch React component                  *)
(* (src/src/components/VoiceSearch.tsx).                                   *)
(*                                                                         *)
(* A JavaScript string is modelled as a sequence of UTF-16 code units,     *)
(* each code unit being a one-token TLA+ string; Text(q) renders such a    *)
(* sequence as a TLA+ string for interpolation into the templates.         *)
(* The two surrogate code units of U+1F600 are written "<D83D>" and        *)
(* "<DE00>".                                                               *)
(***************************************************************************)
EXTENDS Integers, Sequences, FiniteSets, TLC

VARIABLES
    searchQuery,      \* useState('')            line 18
    isListening,      \* useState(false)         line 19
    searchResults,    \* useState([])            line 20
    isLoading,        \* useState(false)         line 21
    recognition,      \* useState(null): TRUE iff an instance is stored, line 22
    hasSpeechRecognition, \* 'webkitSpeechRecognition' in window || ...  line 26
    hasSpeechSynthesis,   \* 'speechSynthesis' in window                 line 153
    session,          \* state of the platform's recognition session
    timers,           \* setTimeout callbacks in flight, in registration order
    lastEvent,        \* the handler that ran last, with its argument
    toasts,           \* toast() calls made by the handler that ran last
    spoken,           \* speechSynthesis.speak() texts of the handler that ran last
    thrown,           \* exception raised by the handler that ran last
    opened,           \* window.open() calls made by the handler that ran last
    lastDispatched,   \* history: query of the last search that was dispatched
    everCompleted,    \* history: some handleSearch ran to its end
    probe             \* argument and outcome of a direct generateSearchResults call

vars == <<searchQuery, isListening, searchResults, isLoading, recognition,
          hasSpeechRecognition, hasSpeechSynthesis, session, timers, lastEvent,
          toasts, spoken, thrown, opened, lastDispatched, everCompleted, probe>>

(***************************************************************************)
(* Bounds of the model and constants of the program.                       *)
(***************************************************************************)
MaxPending == 2          \* searches in flight at once
MaxLen == 3              \* length of the strings given to generateSearchResults
TickMs == 500            \* granularity of the passage of time
SEARCH_DELAY == 1000     \* setTimeout(resolve, 1000), line 142

(***************************************************************************)
(* Strings.                                                                *)
(***************************************************************************)
HighSurrogate == "<D83D>"
LowSurrogate == "<DE00>"

WhiteSpace == {" ", "\t"}

Alphabet == {"a", "b", "&"} \cup WhiteSpace \cup {HighSurrogate, LowSurrogate}

RECURSIVE Text(_)
Text(q) == IF q = <<>> THEN "" ELSE Head(q) \o Text(Tail(q))

RECURSIVE TrimStart(_)
TrimStart(q) ==
    IF q = <<>> THEN <<>>
    ELSE IF Head(q) \in WhiteSpace THEN TrimStart(Tail(q)) ELSE q

RECURSIVE TrimEnd(_)
TrimEnd(q) ==
    IF q = <<>> THEN <<>>
    ELSE IF q[Len(q)] \in WhiteSpace THEN TrimEnd(SubSeq(q, 1, Len(q) - 1)) ELSE q

\* String.prototype.trim
trim(q) == TrimEnd(TrimStart(q))

\* Mutant of IsBlank: the guard tests the query without trimming it.
IsBlankUntrimmed(q) == q = <<>>

\* !query.trim(): the empty string is the only falsy string
IsBlank(q) == trim(q) = <<>>

\* query.replace(/\s+/g, '_'): every maximal run of white space becomes one '_'
RECURSIVE ReplaceWhiteSpace(_)
ReplaceWhiteSpace(q) ==
    IF q = <<>> THEN <<>>
    ELSE IF Head(q) \in WhiteSpace
         THEN <<"_">> \o ReplaceWhiteSpace(TrimStart(q))
         ELSE <<Head(q)>> \o ReplaceWhiteSpace(Tail(q))

\* encodeURIComponent of one code unit that is not a surrogate: unreserved
\* characters stay, the others become the %XX of their UTF-8 bytes
EncodeUnit(c) ==
    CASE c = " "  -> "%20"
      [] c = "\t" -> "%09"
      [] c = "&"  -> "%26"
      [] OTHER    -> c

\* encodeURIComponent: a surrogate pair becomes the four bytes of its code
\* point, a surrogate that is not part of a pair raises URIError
RECURSIVE encodeURIComponent(_)
encodeURIComponent(q) ==
    IF q = <<>> THEN [threw |-> FALSE, text |-> ""]
    ELSE IF Head(q) = HighSurrogate
         THEN IF Len(q) >= 2 /\ q[2] = LowSurrogate
              THEN LET rest == encodeURIComponent(SubSeq(q, 3, Len(q)))
                   IN  IF rest.threw THEN rest
                       ELSE [threw |-> FALSE, text |-> "%F0%9F%98%80" \o rest.text]
              ELSE [threw |-> TRUE, text |-> ""]
    ELSE IF Head(q) = LowSurrogate
         THEN [threw |-> TRUE, text |-> ""]
    ELSE LET rest == encodeURIComponent(Tail(q))
         IN  IF rest.threw THEN rest
             ELSE [threw |-> FALSE, text |-> EncodeUnit(Head(q)) \o rest.text]

(***************************************************************************)
(* The result synthesizer, lines 87-134.                                   *)
(***************************************************************************)
SearchResult(id, title, description, url, snippet) ==
    [id |-> id, title |-> title, description |-> description,
     url |-> url, snippet |-> snippet]

\* The outcome of a call: the array it returns, or the exception it raises.
generateSearchResults(query) ==
    LET encoded == encodeURIComponent(query)
        encodedQuery == encoded.text
        q == Text(query)
    IN  IF encoded.threw THEN [threw |-> TRUE, value |-> <<>>]
        ELSE [threw |-> FALSE, value |-> <<
          SearchResult("1",
            q \o " - Wikipedia",
            "Learn comprehensive information about " \o q \o " on Wikipedia",
            "https://en.wikipedia.org/wiki/" \o Text(ReplaceWhiteSpace(query)),
            "Discover detailed information about " \o q \o " including its history, definition, and related topics. Wikipedia provides reliable, well-sourced content that's perfect for learning and research."),
          SearchResult("2",
            q \o " - YouTube Tutorials",
            "Watch educational videos about " \o q,
            "https://www.youtube.com/results?search_query=" \o encodedQuery \o "+tutorial",
            "Visual learning made easy! Watch step-by-step tutorials, expert explanations, and practical demonstrations about " \o q \o " from top educators and professionals."),
          SearchResult("3",
            q \o " - Khan Academy",
            "Free online courses and lessons about " \o q,
            "https://www.khanacademy.org/search?page_search_query=" \o encodedQuery,
            "Access free, world-class education materials about " \o q \o ". Khan Academy offers structured learning paths, practice exercises, and expert instruction."),
          SearchResult("4",
            q \o " - Coursera Courses",
            "Professional courses and certifications related to " \o q,
            "https://www.coursera.org/search?query=" \o encodedQuery,
            "Advance your knowledge with university-level courses about " \o q \o ". Learn from top institutions and industry experts with hands-on projects and certificates."),
          SearchResult("5",
            q \o " - Reddit Discussions",
            "Community discussions and real experiences about " \o q,
            "https://www.reddit.com/search/?q=" \o encodedQuery,
            "Join the conversation! Read real experiences, ask questions, and get practical advice about " \o q \o " from a vibrant community of learners and experts."),
          SearchResult("6",
            q \o " - Google Scholar",
            "Academic research and scholarly articles about " \o q,
            "https://scholar.google.com/scholar?q=" \o encodedQuery,
            "Access peer-reviewed research papers, academic studies, and scholarly articles about " \o q \o ". Perfect for in-depth research and academic learning.")
          >>]

\* The sentence handleSearch narrates, line 149.
Summary(n, query) ==
    "Found " \o ToString(n) \o " learning resources for " \o Text(query)
        \o ". Click any result to start learning!"

(***************************************************************************)
(* Inputs.                                                                 *)
(***************************************************************************)
\* Texts the user may have in the input field (onChange, line 198).
TypedTexts == { <<>>, <<"\t", " ">>, <<HighSurrogate>> }

\* Transcripts the platform may deliver (event.results[0][0].transcript).
Transcripts == { <<>>, <<"h", "i">> }

\* The four quick-pick topics, lines 319, 326, 333, 340.
QuickPicks == { <<"m","a","c","h","i","n","e"," ","l","e","a","r","n","i","n","g">>,
                <<"w","e","b"," ","d","e","v","e","l","o","p","m","e","n","t">>,
                <<"c","o","o","k","i","n","g">>,
                <<"p","h","o","t","o","g","r","a","p","h","y">> }

\* Every string over Alphabet of at most n code units.
Strings(n) == UNION { [1..k -> Alphabet] : k \in 0..n }

(***************************************************************************)
(* Notices, lines 36-39, 51-55, 72-76.                                     *)
(***************************************************************************)
ListeningToast ==
    [title |-> "Listening...", description |-> "Speak now to search",
     variant |-> "default"]

ErrorToast ==
    [title |-> "Voice Recognition Error",
     description |-> "Please try again or use text input",
     variant |-> "destructive"]

NotSupportedToast ==
    [title |-> "Voice Recognition Not Supported",
     description |-> "Your browser doesn't support voice recognition",
     variant |-> "destructive"]

\* The notice of handleResultClick, lines 169-172.
OpeningToast(title) ==
    [title |-> "Opening Resource",
     description |-> "Opening " \o title \o " in a new tab",
     variant |-> "default"]

NoQuery == [some |-> FALSE, query |-> <<>>]

\* overlapped: the handler ran while another search was still in flight.
Event(name, query, overlapped) ==
    [name |-> name, query |-> query, overlapped |-> overlapped]

NoProbe == [arg |-> <<>>, called |-> FALSE, threw |-> FALSE, value |-> <<>>]

(***************************************************************************)
(* The state after the component has mounted and its effect has run,       *)
(* lines 17-66.                                                            *)
(***************************************************************************)
Init ==
    /\ searchQuery = <<>>
    /\ isListening = FALSE
    /\ searchResults = <<>>
    /\ isLoading = FALSE
    /\ hasSpeechRecognition \in BOOLEAN
    /\ hasSpeechSynthesis \in BOOLEAN
    /\ recognition = hasSpeechRecognition
    /\ session = "inactive"
    /\ timers = <<>>
    /\ lastEvent = Event("mount", <<>>, FALSE)
    /\ toasts = <<>>
    /\ spoken = <<>>
    /\ thrown = "none"
    /\ opened = <<>>
    /\ lastDispatched = NoQuery
    /\ everCompleted = FALSE
    /\ probe = NoProbe

(***************************************************************************)
(* handleSearch, lines 136-150.  The call runs to the await (lines         *)
(* 137-142) inside the handler that makes it; the rest (lines 144-149)     *)
(* runs when the timer fires.                                              *)
(***************************************************************************)
handleSearch(query) ==
    IF IsBlank(query)
    THEN UNCHANGED <<isLoading, timers, lastDispatched>>
    ELSE /\ isLoading' = TRUE
         /\ timers' = Append(timers,
                             [query |-> query, remaining |-> SEARCH_DELAY])
         /\ lastDispatched' = [some |-> TRUE, query |-> query]

\* The model holds at most MaxPending searches in flight.
Room(query) == IsBlank(query) \/ Len(timers) < MaxPending

\* speakResult, lines 152-160: what the call hands to speechSynthesis.speak.
speakResult(text) == IF hasSpeechSynthesis THEN <<text>> ELSE <<>>

\* Time passes: every running timer comes TickMs closer to firing.
Tick ==
    /\ \E i \in 1..Len(timers) : timers[i].remaining > 0
    /\ timers' = [i \in 1..Len(timers) |->
                    [timers[i] EXCEPT !.remaining =
                        IF @ > TickMs THEN @ - TickMs ELSE 0]]
    /\ opened' = <<>>
    /\ lastEvent' = Event("tick", <<>>, FALSE)
    /\ toasts' = <<>> /\ spoken' = <<>> /\ thrown' = "none"
    /\ UNCHANGED <<searchQuery, isListening, searchResults, isLoading, recognition,
                   hasSpeechRecognition, hasSpeechSynthesis, session,
                   lastDispatched, everCompleted, probe>>

\* The timer registered first fires first (all delays are equal), and the
\* call that awaited it resumes, lines 144-149.
handleSearchResume ==
    /\ timers # <<>>
    /\ Head(timers).remaining = 0
    /\ LET query == Head(timers).query
           results == generateSearchResults(query)
       IN  /\ timers' = Tail(timers)
           /\ opened' = <<>>
           /\ lastEvent' = Event("resume", query, Len(timers) > 1)
           /\ toasts' = <<>>
           /\ IF results.threw
              THEN /\ thrown' = "URIError"
                   /\ spoken' = <<>>
                   /\ UNCHANGED <<searchResults, isLoading, everCompleted>>
              ELSE /\ searchResults' = results.value
                   /\ isLoading' = FALSE
                   /\ thrown' = "none"
                   /\ everCompleted' = TRUE
                   /\ spoken' = speakResult(Summary(Len(results.value), query))
    /\ UNCHANGED <<searchQuery, isListening, recognition, hasSpeechRecognition,
                   hasSpeechSynthesis, session, lastDispatched, probe>>

(***************************************************************************)
(* The view, lines 175-350.                                                *)
(***************************************************************************)
\* Mutant of EmptyStateVisible: the panel ignores the result list.
EmptyStateIgnoringResults == ~isLoading /\ searchQuery = <<>>

\* The condition under which the empty-state panel is rendered, line 305.
EmptyStateVisible == ~isLoading /\ Len(searchResults) = 0 /\ searchQuery = <<>>

\* The submit button is disabled while loading, line 218.
SubmitEnabled == ~isLoading

\* onChange of the input, line 198.
onChange(text) ==
    /\ searchQuery' = text
    /\ opened' = <<>>
    /\ lastEvent' = Event("onChange", text, FALSE)
    /\ toasts' = <<>> /\ spoken' = <<>> /\ thrown' = "none"
    /\ UNCHANGED <<isListening, searchResults, isLoading, recognition,
                   hasSpeechRecognition, hasSpeechSynthesis, session, timers,
                   lastDispatched, everCompleted, probe>>

\* onSearchSubmit, lines 162-165.
onSearchSubmit ==
    /\ SubmitEnabled
    /\ Room(searchQuery)
    /\ handleSearch(searchQuery)
    /\ opened' = <<>>
    /\ lastEvent' = Event("onSearchSubmit", searchQuery, FALSE)
    /\ toasts' = <<>> /\ spoken' = <<>> /\ thrown' = "none"
    /\ UNCHANGED <<searchQuery, isListening, searchResults, recognition,
                   hasSpeechRecognition, hasSpeechSynthesis, session,
                   everCompleted, probe>>

\* A click on one of the quick-pick buttons of the empty-state panel,
\* lines 316-343.
quickPick(topic) ==
    /\ EmptyStateVisible
    /\ Room(topic)
    /\ handleSearch(topic)
    /\ opened' = <<>>
    /\ lastEvent' = Event("quickPick", topic, FALSE)
    /\ toasts' = <<>> /\ spoken' = <<>> /\ thrown' = "none"
    /\ UNCHANGED <<searchQuery, isListening, searchResults, recognition,
                   hasSpeechRecognition, hasSpeechSynthesis, session,
                   everCompleted, probe>>

\* A click on the body of result card i: handleResultClick, lines 167-173,
\* bound to the card at line 258.  The list is rendered only when it is not
\* empty, line 236.
handleResultClick(i) ==
    /\ i \in 1..Len(searchResults)
    /\ opened' = <<[url |-> searchResults[i].url, target |-> "_blank",
                    features |-> "noopener,noreferrer"]>>
    /\ toasts' = <<OpeningToast(searchResults[i].title)>>
    /\ lastEvent' = [name |-> "handleResultClick", query |-> <<>>,
                     overlapped |-> FALSE]
    /\ spoken' = <<>> /\ thrown' = "none"
    /\ UNCHANGED <<searchQuery, isListening, searchResults, isLoading, recognition,
                   hasSpeechRecognition, hasSpeechSynthesis, session, timers,
                   lastDispatched, everCompleted, probe>>

\* A click on the "Read Results" button, lines 242-249: the summary names
\* the query of the current render.
readResults ==
    /\ Len(searchResults) > 0
    /\ spoken' = speakResult(Summary(Len(searchResults), searchQuery))
    /\ lastEvent' = [name |-> "readResults", query |-> <<>>, overlapped |-> FALSE]
    /\ opened' = <<>> /\ toasts' = <<>> /\ thrown' = "none"
    /\ UNCHANGED <<searchQuery, isListening, searchResults, isLoading, recognition,
                   hasSpeechRecognition, hasSpeechSynthesis, session, timers,
                   lastDispatched, everCompleted, probe>>

\* A click on the speak button of result card i, lines 276-286:
\* stopPropagation keeps the click from the card's own handler.
speakSnippet(i) ==
    /\ i \in 1..Len(searchResults)
    /\ spoken' = speakResult(searchResults[i].snippet)
    /\ lastEvent' = [name |-> "speakSnippet", query |-> <<>>, overlapped |-> FALSE]
    /\ opened' = <<>> /\ toasts' = <<>> /\ thrown' = "none"
    /\ UNCHANGED <<searchQuery, isListening, searchResults, isLoading, recognition,
                   hasSpeechRecognition, hasSpeechSynthesis, session, timers,
                   lastDispatched, everCompleted, probe>>

(***************************************************************************)
(* The speech input adapter, lines 25-84.  session is the platform's       *)
(* side of it:                                                             *)
(*   inactive  no session                                                  *)
(*   starting  start() was called, the start event is yet to come          *)
(*   listening the start event was delivered                               *)
(*   stopping  stop() was called, a result may still come                  *)
(*   closing   a result or an error was delivered, the end event remains   *)
(***************************************************************************)
\* Mutant of startVoiceRecognition: start() is called without the null check.
startVoiceRecognitionUnguarded ==
    IF recognition /\ session = "inactive"
    THEN session' = "starting" /\ toasts' = <<>> /\ thrown' = "none"
    ELSE /\ UNCHANGED session
         /\ toasts' = <<>>
         /\ thrown' = IF recognition THEN "InvalidStateError" ELSE "TypeError"

\* startVoiceRecognition, lines 68-78.  SpeechRecognition.start() raises
\* InvalidStateError when the session is already started.
startVoiceRecognition ==
    IF recognition
    THEN IF session = "inactive"
         THEN session' = "starting" /\ toasts' = <<>> /\ thrown' = "none"
         ELSE UNCHANGED session /\ toasts' = <<>> /\ thrown' = "InvalidStateError"
    ELSE UNCHANGED session /\ toasts' = <<NotSupportedToast>> /\ thrown' = "none"

\* stopVoiceRecognition, lines 80-84.
stopVoiceRecognition ==
    /\ IF recognition /\ session = "listening"
       THEN session' = "stopping"
       ELSE UNCHANGED session
    /\ toasts' = <<>> /\ thrown' = "none"

\* A click on the mic button, line 205.
micClick ==
    /\ IF isListening THEN stopVoiceRecognition ELSE startVoiceRecognition
    /\ opened' = <<>>
    /\ lastEvent' = Event("micClick", <<>>, FALSE)
    /\ spoken' = <<>>
    /\ UNCHANGED <<searchQuery, isListening, searchResults, isLoading, recognition,
                   hasSpeechRecognition, hasSpeechSynthesis, timers,
                   lastDispatched, everCompleted, probe>>

\* recognitionInstance.onstart, lines 34-40.
onstart ==
    /\ session = "starting"
    /\ session' = "listening"
    /\ isListening' = TRUE
    /\ toasts' = <<ListeningToast>>
    /\ opened' = <<>>
    /\ lastEvent' = Event("onstart", <<>>, FALSE)
    /\ spoken' = <<>> /\ thrown' = "none"
    /\ UNCHANGED <<searchQuery, searchResults, isLoading, recognition,
                   hasSpeechRecognition, hasSpeechSynthesis, timers,
                   lastDispatched, everCompleted, probe>>

\* recognitionInstance.onresult, lines 42-46.
onresult(transcript) ==
    /\ session \in {"listening", "stopping"}
    /\ Room(transcript)
    /\ session' = "closing"
    /\ searchQuery' = transcript
    /\ handleSearch(transcript)
    /\ opened' = <<>>
    /\ lastEvent' = Event("onresult", transcript, FALSE)
    /\ toasts' = <<>> /\ spoken' = <<>> /\ thrown' = "none"
    /\ UNCHANGED <<isListening, searchResults, recognition, hasSpeechRecognition,
                   hasSpeechSynthesis, everCompleted, probe>>

\* Mutant of onerror: the handler also clears the query.
onerrorClearingQuery ==
    /\ session \in {"starting", "listening", "stopping"}
    /\ session' = "closing"
    /\ isListening' = FALSE
    /\ searchQuery' = <<>>
    /\ toasts' = <<ErrorToast>>
    /\ opened' = <<>>
    /\ lastEvent' = Event("onerror", <<>>, FALSE)
    /\ spoken' = <<>> /\ thrown' = "none"
    /\ UNCHANGED <<searchResults, isLoading, recognition,
                   hasSpeechRecognition, hasSpeechSynthesis, timers,
                   lastDispatched, everCompleted, probe>>

\* recognitionInstance.onerror, lines 48-56.
onerror ==
    /\ session \in {"starting", "listening", "stopping"}
    /\ session' = "closing"
    /\ isListening' = FALSE
    /\ toasts' = <<ErrorToast>>
    /\ opened' = <<>>
    /\ lastEvent' = Event("onerror", <<>>, FALSE)
    /\ spoken' = <<>> /\ thrown' = "none"
    /\ UNCHANGED <<searchQuery, searchResults, isLoading, recognition,
                   hasSpeechRecognition, hasSpeechSynthesis, timers,
                   lastDispatched, everCompleted, probe>>

\* recognitionInstance.onend, lines 58-60.
onend ==
    /\ session \in {"listening", "stopping", "closing"}
    /\ session' = "inactive"
    /\ isListening' = FALSE
    /\ opened' = <<>>
    /\ lastEvent' = Event("onend", <<>>, FALSE)
    /\ toasts' = <<>> /\ spoken' = <<>> /\ thrown' = "none"
    /\ UNCHANGED <<searchQuery, searchResults, isLoading, recognition,
                   hasSpeechRecognition, hasSpeechSynthesis, timers,
                   lastDispatched, everCompleted, probe>>

Next ==
    \/ \E text \in TypedTexts : onChange(text)
    \/ onSearchSubmit
    \/ \E topic \in QuickPicks : quickPick(topic)
    \/ micClick
    \/ onstart
    \/ \E transcript \in Transcripts : onresult(transcript)
    \/ onerror
    \/ onend
    \/ Tick
    \/ handleSearchResume
    \/ \E i \in 1..Len(searchResults) : handleResultClick(i)
    \/ readResults
    \/ \E i \in 1..Len(searchResults) : speakSnippet(i)

Spec == Init /\ [][Next]_vars

(***************************************************************************)
(* The result synthesizer called on its own, on every string over Alphabet *)
(* of at most MaxLen code units.                                           *)
(***************************************************************************)
PureInit ==
    /\ searchQuery = <<>>
    /\ isListening = FALSE
    /\ searchResults = <<>>
    /\ isLoading = FALSE
    /\ hasSpeechRecognition = FALSE
    /\ hasSpeechSynthesis = FALSE
    /\ recognition = FALSE
    /\ session = "inactive"
    /\ timers = <<>>
    /\ lastEvent = Event("mount", <<>>, FALSE)
    /\ toasts = <<>>
    /\ spoken = <<>>
    /\ thrown = "none"
    /\ opened = <<>>
    /\ lastDispatched = NoQuery
    /\ everCompleted = FALSE
    /\ \E arg \in Strings(MaxLen) : probe = [NoProbe EXCEPT !.arg = arg]

CallGenerate ==
    /\ ~probe.called
    /\ LET results == generateSearchResults(probe.arg)
       IN  probe' = [arg |-> probe.arg, called |-> TRUE,
                     threw |-> results.threw, value |-> results.value]
    /\ UNCHANGED <<searchQuery, isListening, searchResults, isLoading, recognition,
                   hasSpeechRecognition, hasSpeechSynthesis, session, timers,
                   lastEvent, toasts, spoken, thrown, opened, lastDispatched,
                   everCompleted>>

PureNext == CallGenerate

PureSpec == PureInit /\ [][PureNext]_vars

(***************************************************************************)
(* Properties.                                                             *)
(***************************************************************************)
SiteTitles == << " - Wikipedia", " - YouTube Tutorials", " - Khan Academy",
                 " - Coursera Courses", " - Reddit Discussions",
                 " - Google Scholar" >>

\* rs is the six-entry result list of query: ids '1'..'6' in order, each
\* title naming the query and the site of its position.
IsResultSetFor(rs, query) ==
    /\ Len(rs) = Len(SiteTitles)
    /\ \A i \in 1..Len(SiteTitles) :
          /\ rs[i].id = ToString(i)
          /\ rs[i].title = Text(query) \o SiteTitles[i]

\* A search that was dispatched is still waiting for its delay to elapse.
SearchWaiting == \E i \in 1..Len(timers) : timers[i].remaining > 0

\* C1: whenever a dispatched search has not yet finished its delay,
\* isLoading is true.
C1_LoadingWhilePending == SearchWaiting => isLoading

\* C2: a search whose delay resolves while another call is still pending
\* completes and replaces the results by those of its own query (neither
\* call is cancelled or blocked), so that the call resolving last decides
\* the final results.
C2_OverlappingCallsComplete ==
    (lastEvent.name = "resume" /\ lastEvent.overlapped)
        => /\ thrown = "none"
           /\ IsResultSetFor(searchResults, lastEvent.query)

\* q is empty or holds white space only.
WhitespaceOnly(q) == \A i \in 1..Len(q) : q[i] \in WhiteSpace

\* The step is a call of handleSearch with a blank query.
BlankSearchStep ==
    /\ lastEvent'.name \in {"onSearchSubmit", "quickPick", "onresult"}
    /\ WhitespaceOnly(lastEvent'.query)

\* C3: handleSearch with an empty or whitespace-only query changes no state:
\* isLoading and results stay, no delay is started, nothing is notified or
\* narrated (and the submitted query itself stays).
C3_BlankSearchIsNoOp ==
    [][BlankSearchStep =>
          /\ UNCHANGED <<isLoading, searchResults, timers, isListening>>
          /\ toasts' = <<>> /\ spoken' = <<>> /\ thrown' = "none"
          /\ (lastEvent'.name # "onresult" => UNCHANGED searchQuery)]_vars

C3_Witness ==
    /\ lastEvent.name = "onSearchSubmit"
    /\ lastEvent.query = <<"\t", " ">>
    /\ searchResults # <<>>
    /\ timers = <<>>
    /\ ~isLoading

\* C4: the result event itself yields isListening = false, the
\* transcript as query and a search dispatched with that transcript.
C4_ResultYieldsIdle ==
    lastEvent.name = "onresult"
        => /\ ~isListening
           /\ searchQuery = lastEvent.query
           /\ timers # <<>>
           /\ timers[Len(timers)].query = lastEvent.query

\* C5: the error handler sets isListening to false, emits one destructive
\* error notice and leaves query, results and isLoading as they were.
C5_ErrorKeepsState ==
    [][lastEvent'.name = "onerror" =>
          /\ ~isListening'
          /\ Len(toasts') = 1
          /\ toasts'[1].title = "Voice Recognition Error"
          /\ toasts'[1].variant = "destructive"
          /\ UNCHANGED <<searchQuery, searchResults, isLoading>>]_vars

C5_Witness ==
    /\ lastEvent.name = "onerror"
    /\ ~isListening
    /\ toasts = <<ErrorToast>>
    /\ searchQuery # <<>>
    /\ searchResults # <<>>
    /\ isLoading

\* C6: without speech recognition every mic click produces the "not
\* supported" notice and raises nothing, and isListening is never true.
C6_UnsupportedMic ==
    ~hasSpeechRecognition =>
        /\ ~isListening
        /\ session = "inactive"
        /\ lastEvent.name = "micClick" =>
              /\ toasts = <<NotSupportedToast>>
              /\ thrown = "none"
              /\ opened = <<>>

C6_Witness ==
    /\ ~hasSpeechRecognition
    /\ lastEvent.name = "micClick"
    /\ toasts = <<NotSupportedToast>>
    /\ ~isListening

\* C7: for every non-empty query generateSearchResults returns the six
\* results, ids '1'..'6', in the fixed order of the sites.
C7_SixResults ==
    (probe.called /\ probe.arg # <<>>)
        => /\ ~probe.threw
           /\ IsResultSetFor(probe.value, probe.arg)

\* C8 as stated: the empty-state panel is rendered whenever query is empty
\* and isLoading is false.
C8_PanelWheneverEmptyQuery ==
    (searchQuery = <<>> /\ ~isLoading) => EmptyStateVisible

\* C8 amended: with an empty query and isLoading false, the panel is
\* rendered exactly as long as no search has completed; once a search (a
\* quick-pick included) has completed the results are non-empty and the
\* panel is not rendered.
C8_PanelUntilFirstResults ==
    (searchQuery = <<>> /\ ~isLoading) => (EmptyStateVisible <=> ~everCompleted)

C8_Witness ==
    /\ searchQuery = <<>>
    /\ ~isLoading
    /\ lastEvent.name = "resume"
    /\ lastEvent.query \in QuickPicks
    /\ everCompleted
    /\ ~EmptyStateVisible

\* C9: with no search in flight and no recognition session open, neither
\* flag is left at true.
C9_QuiescentIsIdle ==
    (timers = <<>> /\ session = "inactive") => (~isListening /\ ~isLoading)

\* The handler that ran last narrated a summary sentence.
SummaryNarrated == lastEvent.name \in {"resume", "readResults"} /\ spoken # <<>>

\* C10: once no search is pending, the results are those of the query
\* dispatched last, and a summary narrated then names that query.
C10_MostRecentSearchShown ==
    (timers = <<>> /\ lastDispatched.some)
        => /\ IsResultSetFor(searchResults, lastDispatched.query)
           /\ SummaryNarrated =>
                 spoken = <<Summary(Len(SiteTitles), lastDispatched.query)>>

====
